---- MODULE Spec2Model ----
(***************************************************************************)
(* Transaction ledger of localportfoliomanager                             *)
(* (internal/api/transaction_handlers.go).                                 *)
(*                                                                         *)
(* Units.  Money is counted in hundredths (the scale of the DECIMAL(x,2)   *)
(* columns), shares in whole shares, prices in hundredths per share.  The  *)
(* 0.01 tolerance of the validators is therefore 1.  average_cost_* is     *)
(* stored in a DECIMAL(10,2) column, so the quotient the handler computes  *)
(* is rounded to the nearest hundredth when the row is written.            *)
(*                                                                         *)
(* The table portfolio_transactions is the set of committed rows.  The     *)
(* handler keeps no state of its own between requests.                     *)
(***************************************************************************)
EXTENDS Integers, Sequences, FiniteSets, TLC

(***************************************************************************)
(* Bounds of the model.                                                    *)
(***************************************************************************)
MaxTx == 4
\* rows the ledger may hold (ids 1..MaxTx)

MaxTime == 2
\* effective timestamps are drawn from 1..MaxTime

(***************************************************************************)
(* Program constants.                                                      *)
(***************************************************************************)
Tolerance == 1
\* math.Abs(expectedAmount-req.Amount) > 0.01, in hundredths

KnownTickers == {"BBOB"}
\* the rows of table tickers

NoTicker == ""
\* req.Ticker == "" ; a NULL ticker column
NullNum == 0 - 1
\* a NULL numeric column (shares, price, shares_count_*, average_cost_*)

Deposit == "DEPOSIT"
Withdraw == "WITHDRAW"
Buy == "BUY"
Sell == "SELL"
Dividend == "DIVIDEND"

VARIABLES
    portfolio_transactions,
    nextId,
    resp,
    inflight,
    round,
    portfolios,
    client,
    newton,
    reads

vars ==
    <<portfolio_transactions, nextId, resp, inflight, round, portfolios, client,
      newton, reads>>

PortfolioIds == {1, 2}
\* the ids of the rows of table portfolios once two portfolios were created

Procs == {1, 2}
\* two HTTP handler goroutines

NoReq == [type |-> "NONE"]

(***************************************************************************)
(* Arithmetic helpers.                                                     *)
(***************************************************************************)
Abs(x) == IF x < 0 THEN 0 - x ELSE x

Min(a, b) == IF a < b THEN a ELSE b

\* n / d rounded to the nearest integer, halves away from zero (n >= 0, d > 0):
\* what storing a float quotient into a DECIMAL(10,2) column does.
RoundDiv(n, d) == (2 * n + d) \div (2 * d)

Coalesce(v) == IF v = NullNum THEN 0 ELSE v

\* the sum of f[x] over x in S, f a function whose domain includes S
RECURSIVE SumOver(_, _)
SumOver(S, f) ==
    IF S = {} THEN 0
    ELSE LET x == CHOOSE y \in S : TRUE
         IN  f[x] + SumOver(S \ {x}, f)

(***************************************************************************)
(* Queries.                                                                *)
(***************************************************************************)
\* ORDER BY transaction_at DESC, id DESC LIMIT 1 over a non-empty set of rows
LatestRow(rows) ==
    CHOOSE r \in rows :
        \A q \in rows :
            \/ q.transaction_at < r.transaction_at
            \/ (q.transaction_at = r.transaction_at /\ q.id <= r.id)

PortfolioRows(db, portfolioID) == {r \in db : r.portfolio_id = portfolioID}

TickerRows(db, portfolioID, ticker) ==
    {r \in db : r.portfolio_id = portfolioID /\ r.ticker = ticker}

\* getLatestBalances: <<cashBefore, sharesBefore>>; sql.ErrNoRows leaves 0
getLatestBalances(db, portfolioID, ticker) ==
    LET pr == PortfolioRows(db, portfolioID)
        tr == TickerRows(db, portfolioID, ticker)
        cashBefore == IF pr = {} THEN 0 ELSE LatestRow(pr).cash_balance_after
        sharesBefore ==
            IF ticker = NoTicker \/ tr = {} THEN 0
            ELSE Coalesce(LatestRow(tr).shares_count_after)
    IN  <<cashBefore, sharesBefore>>

getPortfolioBalance(db, portfolioID) ==
    LET pr == PortfolioRows(db, portfolioID)
    IN  IF pr = {} THEN 0 ELSE LatestRow(pr).cash_balance_after

calculateAverageCost(db, portfolioID, ticker) ==
    LET tr == TickerRows(db, portfolioID, ticker)
    IN  IF tr = {} THEN 0 ELSE Coalesce(LatestRow(tr).average_cost_after)

\* SUM(CASE WHEN type = 'BUY' THEN shares ELSE -shares END) over BUY/SELL rows
SignedShares(r) == IF r.type = Buy THEN r.shares ELSE 0 - r.shares

\* the ownership query without its condition transaction_at <= $3
hasSharesAnyTime(db, portfolioID, ticker, at) ==
    LET rs == {r \in TickerRows(db, portfolioID, ticker) : r.type \in {Buy, Sell}}
    IN  rs # {} /\ SumOver(rs, [r \in rs |-> SignedShares(r)]) > 0

\* the EXISTS(... transaction_at <= $3 ... HAVING SUM(...) > 0) ownership query
hasSharesAt(db, portfolioID, ticker, at) ==
    LET rs == {r \in TickerRows(db, portfolioID, ticker) :
                  r.type \in {Buy, Sell} /\ r.transaction_at <= at}
    IN  rs # {} /\ SumOver(rs, [r \in rs |-> SignedShares(r)]) > 0

\* positionQuery of the DIVIDEND branch; NullNum stands for sql.ErrNoRows
currentPosition(db, portfolioID, ticker) ==
    LET rs == {r \in TickerRows(db, portfolioID, ticker) : r.type \in {Buy, Sell}}
    IN  IF rs = {} THEN NullNum ELSE LatestRow(rs).shares_count_after

validateTicker(ticker) == ticker \in KnownTickers

\* SELECT EXISTS(SELECT 1 FROM portfolios WHERE id = $1)
validatePortfolio(ps, portfolioID) == portfolioID \in ps

\* GetPortfolioHoldings, the query latest_transactions: of the BUY and SELL rows
\* of the portfolio that have shares_count_after > 0, the latest of each ticker
\* (ROW_NUMBER() ... ORDER BY transaction_at DESC, id DESC, rn = 1), as
\* [ticker, shares, average_cost]
GetPortfolioHoldings(db, portfolioID) ==
    LET latest_transactions ==
            {r \in PortfolioRows(db, portfolioID) :
                r.type \in {Buy, Sell} /\ r.shares_count_after > 0}
        tickers == {r.ticker : r \in latest_transactions}
    IN  {LET rn1 == LatestRow({r \in latest_transactions : r.ticker = t})
         IN  [ticker |-> t,
              shares |-> rn1.shares_count_after,
              average_cost |-> rn1.average_cost_after] : t \in tickers}

\* GetPortfolioDailyValues, one row of its query.  An effective timestamp is
\* taken for its calendar day, DATE(transaction_at).
\* latest_positions: the cash_balance_after of the portfolio's latest row with
\* DATE(transaction_at) <= date (COALESCE 0), and the day's deposits and
\* withdrawals.  daily_positions: DISTINCT ON (ticker) ... ORDER BY ticker,
\* transaction_at DESC, id DESC over the BUY and SELL rows up to the date
\* that have shares_count_after > 0.
DailyRow(db, portfolioID, date) ==
    LET upto == {r \in PortfolioRows(db, portfolioID) : r.transaction_at <= date}
        onDay(type) == {r \in PortfolioRows(db, portfolioID) :
                           r.type = type /\ r.transaction_at = date}
        p == {r \in upto : r.type \in {Buy, Sell} /\ r.shares_count_after > 0}
    IN  [date |-> date,
         cash_balance |-> IF upto = {} THEN 0 ELSE LatestRow(upto).cash_balance_after,
         deposits |-> SumOver(onDay(Deposit), [r \in onDay(Deposit) |-> r.amount]),
         withdrawals |->
             SumOver(onDay(Withdraw), [r \in onDay(Withdraw) |-> r.amount]),
         positions |->
             {LET first == LatestRow({r \in p : r.ticker = t})
              IN  [ticker |-> t, shares |-> first.shares_count_after,
                   price |-> first.price, cost_basis |-> first.average_cost_after] :
                 t \in {r.ticker : r \in p}}]

\* GetPortfolioDailyValues: the rows of generate_series(start_date, end_date),
\* end_date replaced by today when it exceeds today; "BadRequest" when
\* start_date is after the end date as it was given.
GetPortfolioDailyValues(db, portfolioID, startDate, endDate, today) ==
    LET last == IF endDate > today THEN today ELSE endDate
    IN  IF startDate > endDate THEN "BadRequest"
        ELSE [i \in 1..(last - startDate + 1) |->
                 DailyRow(db, portfolioID, startDate + i - 1)]

(***************************************************************************)
(* Validation (before the database transaction starts).                    *)
(***************************************************************************)
isValidTransactionType(t) == t \in {Buy, Sell, Deposit, Withdraw, Dividend}

\* validateBuyTransaction without the comparison of amount with shares x price
validateBuyNoTolerance(req) ==
    /\ req.ticker # NoTicker
    /\ req.shares > 0
    /\ req.price > 0

validateBuyTransaction(req) ==
    /\ req.ticker # NoTicker
    /\ req.shares > 0
    /\ req.price > 0
    /\ ~(Abs(req.shares * req.price - req.amount) > Tolerance)

validateSellTransaction(req) ==
    /\ req.ticker # NoTicker
    /\ req.shares > 0
    /\ req.price > 0
    /\ ~(Abs(req.shares * req.price - req.amount) > Tolerance)

validateCashTransaction(req) ==
    /\ req.amount > 0
    /\ req.fee >= 0
    /\ req.ticker = NoTicker
    /\ req.shares = 0
    /\ req.price = 0

validateDividendTransaction(db, req) ==
    /\ req.ticker # NoTicker
    /\ req.shares = 0
    /\ req.price = 0
    /\ req.fee = 0
    /\ hasSharesAt(db, req.portfolio_id, req.ticker, req.transaction_at)

validateTransactionRequest(db, req) ==
    /\ req.amount > 0
    /\ req.fee >= 0
    /\ CASE req.type = Buy -> validateBuyTransaction(req)
         [] req.type = Sell -> validateSellTransaction(req)
         [] req.type \in {Deposit, Withdraw} -> validateCashTransaction(req)
         [] req.type = Dividend -> validateDividendTransaction(db, req)
         [] OTHER -> FALSE

(***************************************************************************)
(* FIFO.                                                                   *)
(***************************************************************************)
\* The rows calculateFIFOSale selects: every BUY row of the ticker, with the
\* shares it was bought with.
BuyLots(db, portfolioID, ticker) ==
    {r \in TickerRows(db, portfolioID, ticker) : r.type = Buy /\ r.shares > 0}

\* ORDER BY transaction_at ASC names no tie-break: every order of the lots that
\* is ascending in transaction_at is a result the query may return.
RECURSIVE AscendingOrders(_)
AscendingOrders(lots) ==
    IF lots = {} THEN {<<>>}
    ELSE UNION {{<<l>> \o s : s \in AscendingOrders(lots \ {l})} :
                   l \in {m \in lots :
                             \A q \in lots : m.transaction_at <= q.transaction_at}}

LotOrders(db, portfolioID, ticker) ==
    AscendingOrders(BuyLots(db, portfolioID, ticker))

\* the loop over lots: acc = [remainingToSell, totalCostBasis, realizedGain]
RECURSIVE FIFOWalk(_, _, _, _)
FIFOWalk(lots, i, sellPrice, acc) ==
    IF i > Len(lots) \/ acc.remainingToSell <= 0 THEN acc
    ELSE LET lot == lots[i]
             sharesToSellFromLot == Min(acc.remainingToSell, lot.shares)
             costBasisForSale == sharesToSellFromLot * lot.price
             saleProceeds == sharesToSellFromLot * sellPrice
         IN  FIFOWalk(lots, i + 1, sellPrice,
                 [remainingToSell |-> acc.remainingToSell - sharesToSellFromLot,
                  totalCostBasis |-> acc.totalCostBasis + costBasisForSale,
                  realizedGain |-> acc.realizedGain + saleProceeds - costBasisForSale])

\* lots: the query's result, in the order it was returned.  averageCostBasis is
\* the quotient totalCostBasis / sharesToSell, kept as <<numerator, denominator>>.
calculateFIFOSale(lots, sharesToSell, sellPrice) ==
    LET acc == FIFOWalk(lots, 1, sellPrice,
                   [remainingToSell |-> sharesToSell, totalCostBasis |-> 0,
                    realizedGain |-> 0])
    IN  IF acc.remainingToSell > 0
        THEN [err |-> TRUE, averageCostBasis |-> <<0, 1>>, realizedGain |-> 0]
        ELSE [err |-> FALSE,
              averageCostBasis |-> <<acc.totalCostBasis, sharesToSell>>,
              realizedGain |-> acc.realizedGain]

(***************************************************************************)
(* CreateTransaction.                                                      *)
(***************************************************************************)
NoFIFO == [err |-> FALSE, averageCostBasis |-> <<0, 1>>, realizedGain |-> 0]

\* Everything one request reads from the database: the ownership check of
\* validateTransactionRequest, getLatestBalances, calculateAverageCost, and the
\* queries of the SELL and DIVIDEND branches, each run only where the handler
\* runs it.  lots is the lot query's result.
ReadSnapshot(db, req, lots) ==
    LET bal == getLatestBalances(db, req.portfolio_id, req.ticker)
        stock == req.type \in {Buy, Sell}
    IN  [valid |-> isValidTransactionType(req.type)
                     /\ validateTransactionRequest(db, req),
         cashBefore |-> bal[1],
         sharesBefore |-> bal[2],
         averageCostBefore |->
             IF stock THEN calculateAverageCost(db, req.portfolio_id, req.ticker)
             ELSE 0,
         fifo |->
             IF req.type = Sell /\ ~(bal[2] < req.shares)
             THEN calculateFIFOSale(lots, req.shares, req.price)
             ELSE NoFIFO,
         hasShares |->
             req.type = Dividend
             /\ hasSharesAt(db, req.portfolio_id, req.ticker, req.transaction_at),
         currentShares |->
             IF req.type = Dividend
             THEN currentPosition(db, req.portfolio_id, req.ticker)
             ELSE NullNum]

\* Response without the WITHDRAW branch's balance check
ResponseNoWithdrawCheck(rd, req) ==
    CASE ~rd.valid -> "ValidationError"
      [] req.type = Buy /\ rd.cashBefore < req.amount + req.fee -> "InsufficientFunds"
      [] req.type = Sell /\ rd.sharesBefore < req.shares -> "InsufficientShares"
      [] req.type = Sell /\ rd.fifo.err -> "FIFOError"
      [] req.type = Dividend /\ ~rd.hasShares -> "NoSharesOwned"
      [] req.type = Dividend /\ rd.currentShares = NullNum -> "PositionError"
      [] req.type \in {Buy, Sell, Dividend} /\ ~validateTicker(req.ticker) ->
             "InvalidTicker"
      [] OTHER -> "Created"

\* The first error the handler answers with, "Created" when there is none.
Response(rd, req) ==
    CASE ~rd.valid -> "ValidationError"
      [] req.type = Withdraw /\ rd.cashBefore < req.amount -> "InsufficientFunds"
      [] req.type = Buy /\ rd.cashBefore < req.amount + req.fee -> "InsufficientFunds"
      [] req.type = Sell /\ rd.sharesBefore < req.shares -> "InsufficientShares"
      [] req.type = Sell /\ rd.fifo.err -> "FIFOError"
      [] req.type = Dividend /\ ~rd.hasShares -> "NoSharesOwned"
      [] req.type = Dividend /\ rd.currentShares = NullNum -> "PositionError"
      [] req.type \in {Buy, Sell, Dividend} /\ ~validateTicker(req.ticker) ->
             "InvalidTicker"
      [] OTHER -> "Created"

\* cashAfter as the switch (and, for BUY and SELL, the insert branch) leaves it
CashAfter(rd, req) ==
    CASE req.type = Deposit -> rd.cashBefore + req.amount
      [] req.type = Withdraw -> rd.cashBefore - req.amount
      [] req.type = Buy -> rd.cashBefore - (req.amount + req.fee)
      [] req.type = Sell -> rd.cashBefore + req.amount - req.fee
      [] req.type = Dividend -> rd.cashBefore + req.amount

SharesAfter(rd, req) ==
    CASE req.type = Buy -> rd.sharesBefore + req.shares
      [] req.type = Sell -> rd.sharesBefore - req.shares
      [] req.type = Dividend -> rd.currentShares
      [] OTHER -> 0

\* averageCostAfter had the insert branch not overwritten the SELL value of the
\* switch: the FIFO cost basis
AverageCostAfterFifo(rd, req) ==
    CASE req.type = Buy ->
             <<rd.sharesBefore * rd.averageCostBefore + req.amount,
               rd.sharesBefore + req.shares>>
      [] req.type = Sell -> rd.fifo.averageCostBasis
      [] req.type = Dividend -> <<rd.averageCostBefore, 1>>
      [] OTHER -> <<0, 1>>

\* averageCostAfter as the insert receives it, <<numerator, denominator>>.
\* BUY: the switch computes (averageCostBefore*sharesBefore + Price*Shares) /
\* sharesAfter, and the insert branch then overwrites it with
\* (sharesBefore*averageCostBefore + Amount) / sharesAfter.
\* SELL: the switch stores the FIFO cost basis, and the insert branch then
\* overwrites it with averageCostBefore.
AverageCostAfter(rd, req) ==
    CASE req.type = Buy ->
             <<rd.sharesBefore * rd.averageCostBefore + req.amount,
               rd.sharesBefore + req.shares>>
      [] req.type = Sell -> <<rd.averageCostBefore, 1>>
      [] req.type = Dividend -> <<rd.averageCostBefore, 1>>
      [] OTHER -> <<0, 1>>

\* req.Notes after both branches appended "Realized gain: %.2f": the FIFO gain,
\* then (Price - averageCostBefore) * Shares.
Notes(rd, req) ==
    IF req.type = Sell
    THEN <<rd.fifo.realizedGain, (req.price - rd.averageCostBefore) * req.shares>>
    ELSE <<>>

\* The row the INSERT writes.  DEPOSIT and WITHDRAW rows carry NULL in ticker,
\* shares, price and the share and average-cost snapshots.
InsertRow(rd, req, id) ==
    LET cash == req.type \in {Deposit, Withdraw}
        aca == AverageCostAfter(rd, req)
    IN  [id |-> id,
         portfolio_id |-> req.portfolio_id,
         type |-> req.type,
         ticker |-> IF cash THEN NoTicker ELSE req.ticker,
         shares |-> IF cash THEN NullNum ELSE req.shares,
         price |-> IF cash THEN NullNum ELSE req.price,
         amount |-> req.amount,
         fee |-> req.fee,
         notes |-> Notes(rd, req),
         transaction_at |-> req.transaction_at,
         cash_balance_before |-> rd.cashBefore,
         cash_balance_after |-> CashAfter(rd, req),
         shares_count_before |-> IF cash THEN NullNum ELSE rd.sharesBefore,
         shares_count_after |-> IF cash THEN NullNum ELSE SharesAfter(rd, req),
         average_cost_before |-> IF cash THEN NullNum ELSE rd.averageCostBefore,
         average_cost_after |-> IF cash THEN NullNum ELSE RoundDiv(aca[1], aca[2])]

\* Commit writing the row in place of the portfolio's latest row
CommitOverLatest(db, rd, req, id) ==
    IF Response(rd, req) = "Created"
    THEN LET pr == PortfolioRows(db, req.portfolio_id)
         IN  (db \ (IF pr = {} THEN {} ELSE {LatestRow(pr)}))
                 \cup {InsertRow(rd, req, id)}
    ELSE db

\* The table after the request: the row is committed only on "Created"; every
\* error return leaves the deferred tx.Rollback() to run.
Commit(db, rd, req, id) ==
    IF Response(rd, req) = "Created" THEN db \cup {InsertRow(rd, req, id)} ELSE db

(***************************************************************************)
(* Requests.                                                               *)
(***************************************************************************)
Times == 1..MaxTime

Request(type, ticker, shares, price, amount, fee, at) ==
    [portfolio_id |-> 1, type |-> type, ticker |-> ticker, shares |-> shares,
     price |-> price, amount |-> amount, fee |-> fee, transaction_at |-> at]

\* <<shares, price, amount - shares * price, fee>> of the BUY and SELL requests
Quotes == {<<1, 1, 0, 0>>, <<2, 1, 1, 1>>}

CashRequests ==
    {Request(Deposit, NoTicker, 0, 0, 4, 0, at) : at \in Times}
    \cup {Request(Withdraw, NoTicker, 0, 0, 2, 0, at) : at \in Times}

StockRequests ==
    {Request(t, "BBOB", q[1], q[2], q[1] * q[2] + q[3], q[4], at) :
        t \in {Buy, Sell}, q \in Quotes, at \in Times}

DividendRequests == {Request(Dividend, "BBOB", 0, 0, 1, 0, at) : at \in Times}

\* requests the validators or validateTicker refuse
RefusedRequests ==
    {Request(Buy, "BBOB", 1, 1, 3, 0, 1),
     Request(Sell, "BBOB", 1, 0, 1, 0, 1),
     Request(Deposit, "BBOB", 0, 0, 3, 0, 1),
     Request(Withdraw, NoTicker, 0, 0, 0, 0, 1),
     Request(Dividend, "BBOB", 0, 0, 1, 1, 1),
     Request(Buy, "ZZZZ", 1, 1, 1, 0, 1),
     Request(Buy, "BBOB", 1, 1, 1, 0 - 1, 1),
     Request(Deposit, NoTicker, 1, 0, 4, 0, 1),
     Request("TRANSFER", NoTicker, 0, 0, 1, 0, 1)}

Requests == CashRequests \cup StockRequests \cup DividendRequests \cup RefusedRequests

(***************************************************************************)
(* The handler run alone: no other request between its reads and its       *)
(* commit.                                                                 *)
(***************************************************************************)
Idle == [req |-> NoReq]

\* The requests of the current overlap: the table and the next id when the
\* first of them began, what each handler was asked and what it answered.
NoRound ==
    [base |-> {}, baseId |-> 1, reqs |-> [p \in Procs |-> NoReq],
     resps |-> [p \in Procs |-> "none"]]

\* ApiService.createTransaction not running: the submissions made so far, the
\* request of the running call and the attempts it has left
NoCall == [submitted |-> 0, req |-> NoReq, retries |-> 0]

\* no read has been answered
NoRead == [call |-> [op |-> "none"]]

\* no calculateIRR or calculateXIRR call is running
NoIteration == [pc |-> "idle"]

Init ==
    /\ portfolio_transactions = {}
    /\ nextId = 1
    /\ resp = "none"
    /\ inflight = [p \in Procs |-> Idle]
    /\ round = NoRound
    /\ portfolios = PortfolioIds
    /\ client = NoCall
    /\ newton = NoIteration
    /\ reads = NoRead

\* The handler, whoever sent the request.  maxRows bounds the table; the
\* handler has no such limit.
Handle(req, maxRows) ==
    /\ nextId <= maxRows
    /\ IF ~validatePortfolio(portfolios, req.portfolio_id)
       THEN /\ resp' = "PortfolioNotFound"
            /\ UNCHANGED <<portfolio_transactions, nextId>>
       ELSE \E lots \in LotOrders(portfolio_transactions, req.portfolio_id,
                                  req.ticker) :
              LET rd == ReadSnapshot(portfolio_transactions, req, lots)
              IN  /\ portfolio_transactions' =
                         Commit(portfolio_transactions, rd, req, nextId)
                  /\ nextId' = IF Response(rd, req) = "Created" THEN nextId + 1
                               ELSE nextId
                  /\ resp' = Response(rd, req)
    /\ UNCHANGED <<inflight, round, portfolios, newton, reads>>

CreateTransaction(req) == Handle(req, MaxTx) /\ UNCHANGED client

Next == \E req \in Requests : CreateTransaction(req)

Spec == Init /\ [][Next]_vars

(***************************************************************************)
(* The handler run alone on requests whose effective timestamps increase   *)
(* with every committed row (no backdating, no two rows at one timestamp): *)
(* one deposit, then purchases and sales of one ticker at two prices.      *)
(***************************************************************************)
MaxFifoTx == 5
\* rows the ledger may hold in SpecFifo

FifoQuotes == {<<1, 1, 0, 0>>, <<1, 2, 0, 0>>}

FifoRequests(at) ==
    {Request(Deposit, NoTicker, 0, 0, 3, 0, at)}
    \cup {Request(t, "BBOB", q[1], q[2], q[1] * q[2] + q[3], q[4], at) :
             t \in {Buy, Sell}, q \in FifoQuotes}

CreateInOrder(req) == Handle(req, MaxFifoTx) /\ UNCHANGED client

NextFifo == \E req \in FifoRequests(nextId) : CreateInOrder(req)

SpecFifo == Init /\ [][NextFifo]_vars

(***************************************************************************)
(* The handler run alone on deposits, purchases and sales of one share and *)
(* dividends, effective timestamps in any order, one row more than Spec.   *)
(***************************************************************************)
MaxDivTx == 5
\* rows the ledger may hold in SpecDiv

DivRequests ==
    {Request(Deposit, NoTicker, 0, 0, 4, 0, 1)}
    \cup {Request(t, "BBOB", 1, 1, 1, 0, at) : t \in {Buy, Sell}, at \in Times}
    \cup DividendRequests

CreateWithDividends(req) == Handle(req, MaxDivTx) /\ UNCHANGED client

NextDiv == \E req \in DivRequests : CreateWithDividends(req)

SpecDiv == Init /\ [][NextDiv]_vars

(***************************************************************************)
(* Two portfolios, the handler run alone on either, and the two operations *)
(* that delete rows: ResetPortfolio, and DeletePortfolio through the       *)
(* ON DELETE CASCADE of portfolio_transactions.portfolio_id.  Ids come     *)
(* from a sequence and are not given out again after a delete.             *)
(***************************************************************************)
MaxAdminTx == 4
\* ids the sequence gives out in SpecAdmin

AdminRequests ==
    {[r EXCEPT !.portfolio_id = p] :
        r \in {Request(Deposit, NoTicker, 0, 0, 4, 0, 1),
               Request(Buy, "BBOB", 1, 1, 1, 0, 1),
               Request(Sell, "BBOB", 1, 1, 1, 0, 1)},
        p \in PortfolioIds}

CreateTransactionOn(req) == Handle(req, MaxAdminTx) /\ UNCHANGED client

\* ResetPortfolio with the WHERE clause of its DELETE left out
ResetEverything(p) ==
    /\ portfolio_transactions' = {}
    /\ resp' = "PortfolioReset"
    /\ UNCHANGED <<nextId, inflight, round, portfolios, client, newton, reads>>

\* DELETE FROM portfolio_transactions WHERE portfolio_id = $1; the handler does
\* not look the portfolio up
ResetPortfolio(p) ==
    /\ portfolio_transactions' = {r \in portfolio_transactions : r.portfolio_id # p}
    /\ resp' = "PortfolioReset"
    /\ UNCHANGED <<nextId, inflight, round, portfolios, client, newton, reads>>

\* DELETE FROM portfolios WHERE id = $1; the rows of portfolio_transactions
\* that reference the portfolio are deleted with it (ON DELETE CASCADE)
DeletePortfolio(p) ==
    /\ IF p \in portfolios
       THEN /\ portfolios' = portfolios \ {p}
            /\ portfolio_transactions' =
                   {r \in portfolio_transactions : r.portfolio_id # p}
            /\ resp' = "PortfolioDeleted"
       ELSE /\ resp' = "PortfolioNotFound"
            /\ UNCHANGED <<portfolios, portfolio_transactions>>
    /\ UNCHANGED <<nextId, inflight, round, client, newton, reads>>

NextAdmin ==
    \/ \E req \in AdminRequests : CreateTransactionOn(req)
    \/ \E p \in PortfolioIds : ResetPortfolio(p)
    \/ \E p \in PortfolioIds : DeletePortfolio(p)

SpecAdmin == Init /\ [][NextAdmin]_vars

(***************************************************************************)
(* The client.  ApiService.createTransaction posts the request and, when   *)
(* the post throws (no connection, or no response within the 10 seconds of *)
(* .timeout), waits a second and posts the same body again, three attempts *)
(* in all.  The server handles every post that reaches it: the handler     *)
(* passes no request context to its database calls, so a client that has   *)
(* given up waiting does not stop the commit.  One call at a time.         *)
(***************************************************************************)
MaxClientTx == 5
\* rows the ledger may hold in SpecClient

MaxSubmits == 2
\* calls of createTransaction in SpecClient

Attempts == 3
\* int retries = 3

ClientRequests ==
    {Request(Deposit, NoTicker, 0, 0, 4, 0, at) : at \in Times}
    \cup {Request(t, "BBOB", 1, 1, 1, 0, at) : t \in {Buy, Sell}, at \in Times}

\* the user submits a transaction: createTransaction starts
Submit(req) ==
    /\ client.req = NoReq
    /\ client.submitted < MaxSubmits
    /\ nextId + Attempts - 1 <= MaxClientTx
    /\ client' = [submitted |-> client.submitted + 1, req |-> req,
                  retries |-> Attempts]
    /\ UNCHANGED <<portfolio_transactions, nextId, resp, inflight, round,
                   portfolios, newton, reads>>

\* the catch block of the loop: retries--, rethrow when none is left
AttemptFailed ==
    client' = IF client.retries = 1
              THEN [client EXCEPT !.req = NoReq, !.retries = 0]
              ELSE [client EXCEPT !.retries = @ - 1]

\* the post reaches the server, whose response arrives in time: break
AttemptAnswered ==
    /\ client.req # NoReq
    /\ Handle(client.req, MaxClientTx)
    /\ client' = [client EXCEPT !.req = NoReq, !.retries = 0]

\* the post does not reach the server
AttemptNotSent ==
    /\ client.req # NoReq
    /\ AttemptFailed
    /\ UNCHANGED <<portfolio_transactions, nextId, resp, inflight, round,
                   portfolios, newton, reads>>

\* the post reaches the server, whose response is lost or comes too late
AttemptUnanswered ==
    /\ client.req # NoReq
    /\ Handle(client.req, MaxClientTx)
    /\ AttemptFailed

NextClient ==
    \/ \E req \in ClientRequests : Submit(req)
    \/ AttemptAnswered
    \/ AttemptNotSent
    \/ AttemptUnanswered

SpecClient == Init /\ [][NextClient]_vars

(***************************************************************************)
(* Two handlers at once.  net/http serves each request on its own          *)
(* goroutine; s.db.Begin() opens a transaction at the server's default     *)
(* isolation level (READ COMMITTED) and no statement of the handler takes  *)
(* a lock, so another handler may commit between a handler's reads and its *)
(* INSERT.  Begin is the handler up to its last read, Finish the rest.     *)
(***************************************************************************)
MaxConcTx == 4
\* rows the ledger may hold when handlers overlap

ConcRequests == {r \in CashRequests \cup StockRequests : r.transaction_at = 1}

Begin(p, req) ==
    /\ nextId <= MaxConcTx
    /\ inflight[p] = Idle
    /\ validatePortfolio(portfolios, req.portfolio_id)
    /\ IF \A q \in Procs : inflight[q] = Idle
       THEN round' = [base |-> portfolio_transactions,
                      baseId |-> nextId,
                      reqs |-> [q \in Procs |-> IF q = p THEN req ELSE NoReq],
                      resps |-> [q \in Procs |-> "none"]]
       ELSE /\ round.reqs[p] = NoReq
            /\ round' = [round EXCEPT !.reqs[p] = req]
    /\ \E lots \in LotOrders(portfolio_transactions, req.portfolio_id, req.ticker) :
          inflight' = [inflight EXCEPT ![p] =
              [req |-> req, rd |-> ReadSnapshot(portfolio_transactions, req, lots)]]
    /\ UNCHANGED <<portfolio_transactions, nextId, resp, portfolios, client, newton, reads>>

Finish(p) ==
    /\ inflight[p] # Idle
    /\ LET req == inflight[p].req
           rd == inflight[p].rd
       IN  /\ portfolio_transactions' =
                  Commit(portfolio_transactions, rd, req, nextId)
           /\ nextId' = IF Response(rd, req) = "Created" THEN nextId + 1 ELSE nextId
           /\ resp' = Response(rd, req)
           /\ round' = [round EXCEPT !.resps[p] = Response(rd, req)]
    /\ inflight' = [inflight EXCEPT ![p] = Idle]
    /\ UNCHANGED <<portfolios, client, newton, reads>>

NextConc ==
    \/ \E p \in Procs, req \in ConcRequests : Begin(p, req)
    \/ \E p \in Procs : Finish(p)

SpecConc == Init /\ [][NextConc]_vars

(***************************************************************************)
(* The read handlers.                                                      *)
(***************************************************************************)
\* rows.Scan of ListTransactions: the destinations are the string and float64
\* fields of Transaction, and Scan fails on the first NULL column
Scans(r) ==
    /\ r.ticker # NoTicker
    /\ r.shares # NullNum
    /\ r.price # NullNum
    /\ r.shares_count_before # NullNum
    /\ r.shares_count_after # NullNum
    /\ r.average_cost_before # NullNum
    /\ r.average_cost_after # NullNum

\* ORDER BY transaction_at DESC, id DESC
RECURSIVE OrderByLatest(_)
OrderByLatest(rows) ==
    IF rows = {} THEN <<>>
    ELSE <<LatestRow(rows)>> \o OrderByLatest(rows \ {LatestRow(rows)})

\* latest_prices of calculateTransactionSummary
last_price == [t \in KnownTickers |-> 2]

NoSummary ==
    [err |-> TRUE, total_deposits |-> 0, total_withdrawals |-> 0,
     total_fees |-> 0, total_dividends |-> 0, realized_gains |-> 0,
     unrealized_gains |-> 0]

\* calculateTransactionSummary: positions is DISTINCT ON (ticker) over the BUY
\* and SELL rows with shares_count_after > 0 whose ticker has a price;
\* summary is one row of sums; summary CROSS JOIN LATERAL positions GROUP BY
\* the sums has no row when positions is empty, and QueryRow().Scan then
\* returns sql.ErrNoRows with the summary left at its zero value.
calculateTransactionSummary(db, portfolioID) ==
    LET rows == PortfolioRows(db, portfolioID)
        held == {r \in rows : /\ r.type \in {Buy, Sell}
                               /\ r.ticker \in DOMAIN last_price
                               /\ r.shares_count_after > 0}
        positions ==
            {LatestRow({r \in held : r.ticker = t}) : t \in {r.ticker : r \in held}}
        sum(type) ==
            LET rs == {r \in rows : r.type = type}
            IN  SumOver(rs, [r \in rs |-> r.amount])
        sells == {r \in rows : r.type = Sell}
    IN  IF positions = {} THEN NoSummary
        ELSE [err |-> FALSE,
              total_deposits |-> sum(Deposit),
              total_withdrawals |-> sum(Withdraw),
              total_fees |-> SumOver(rows, [r \in rows |-> r.fee]),
              total_dividends |-> sum(Dividend),
              realized_gains |->
                  SumOver(sells, [r \in sells |->
                      r.shares * (r.price - r.average_cost_before)]),
              unrealized_gains |->
                  SumOver(positions, [p \in positions |->
                      p.shares_count_after
                          * (last_price[p.ticker] - p.average_cost_after)])]

\* ListTransactions: the rows of the portfolio, latest first; a row whose Scan
\* fails is logged and skipped (continue).  total is the total_count column of
\* the last row scanned, COUNT(*) over the portfolio's rows, and stays 0 when
\* no row scanned, total_count being the last destination.
ListTransactions(db, portfolioID) ==
    LET rows == PortfolioRows(db, portfolioID)
        transactions == SelectSeq(OrderByLatest(rows), Scans)
    IN  [transactions |->
             [i \in 1..Len(transactions) |->
                 [Transaction |-> transactions[i],
                  TotalAmount |-> transactions[i].amount + transactions[i].fee]],
         total |-> IF Len(transactions) = 0 THEN 0 ELSE Cardinality(rows),
         summary |-> calculateTransactionSummary(db, portfolioID)]

\* GetPortfolioBalance: latest_cash is the latest row's cash_balance_after;
\* stock_positions is every BUY and SELL row with shares_count_after > 0, and
\* the sums run over all of them
GetPortfolioBalance(db, portfolioID) ==
    LET rows == PortfolioRows(db, portfolioID)
        stock_positions ==
            {r \in rows : r.type \in {Buy, Sell} /\ r.shares_count_after > 0}
        cash == IF rows = {} THEN 0 ELSE LatestRow(rows).cash_balance_after
        stock_value ==
            SumOver(stock_positions, [r \in stock_positions |->
                r.shares_count_after * r.price])
    IN  [cash |-> cash,
         stock_value |-> stock_value,
         total_value |-> cash + stock_value,
         unrealized_gains |->
             SumOver(stock_positions, [r \in stock_positions |->
                 r.shares_count_after * (r.price - r.average_cost_after)])]

\* GetPortfolioValue: the latest cash balance plus, over latest_positions
\* (DISTINCT ON (ticker) ... ORDER BY ticker, transaction_at DESC, id DESC of
\* the BUY and SELL rows) WHERE shares > 0, the sum of shares * price
GetPortfolioValue(db, portfolioID) ==
    LET rows == PortfolioRows(db, portfolioID)
        trades == {r \in rows : r.type \in {Buy, Sell}}
        latest_positions ==
            {LatestRow({r \in trades : r.ticker = t}) : t \in {r.ticker : r \in trades}}
        held == {r \in latest_positions : r.shares_count_after > 0}
        cashBalance == IF rows = {} THEN 0
                       ELSE Coalesce(LatestRow(rows).cash_balance_after)
    IN  cashBalance
            + SumOver(held, [r \in held |-> r.shares_count_after * r.price])

(***************************************************************************)
(* The performance report.                                                 *)
(***************************************************************************)
\* latest_prices: the close_price of each ticker's latest daily_stock_prices
\* row, in hundredths
daily_stock_prices == [t \in KnownTickers |-> 2]

\* getPerformanceMetrics: totalInvested is SUM(DEPOSIT amount, -WITHDRAW
\* amount); the three components are assigned 0 and total_return is their
\* sum; return_percent, a quotient <<numerator, denominator>>, is assigned
\* only when totalInvested > 0 and is otherwise the zero of a fresh report.
getPerformanceMetrics(db, portfolioID) ==
    LET rows == PortfolioRows(db, portfolioID)
        totalInvested ==
            SumOver(rows, [r \in rows |->
                CASE r.type = Deposit -> r.amount
                  [] r.type = Withdraw -> 0 - r.amount
                  [] OTHER -> 0])
        RealizedGains == 0
        UnrealizedGains == 0
        DividendIncome == 0
        TotalReturn == RealizedGains + UnrealizedGains + DividendIncome
    IN  [realized_gains |-> RealizedGains,
         unrealized_gains |-> UnrealizedGains,
         dividend_income |-> DividendIncome,
         total_return |-> TotalReturn,
         return_percent |-> IF totalInvested > 0
                            THEN <<TotalReturn * 100, totalInvested>>
                            ELSE <<0, 1>>]

\* float64 quotients: a finite quotient n / d with d > 0, or what IEEE 754
\* division by zero gives, +Inf for n > 0 and NaN for n = 0
Num(n, d) == [kind |-> "num", num |-> n, den |-> d]

Inf == [kind |-> "inf", num |-> 1, den |-> 0]

NaN == [kind |-> "nan", num |-> 0, den |-> 0]

Quotient(n, d) ==
    IF d > 0 THEN Num(n, d) ELSE IF n = 0 THEN NaN ELSE Inf

\* a > b on float64: false when either side is NaN
Greater(a, b) ==
    CASE a.kind = "nan" \/ b.kind = "nan" -> FALSE
      [] a.kind = "inf" -> b.kind # "inf"
      [] b.kind = "inf" -> FALSE
      [] OTHER -> a.num * b.den > b.num * a.den

\* the zero time.Time
NoDate == 0

\* the CASE of the drawdown query: what a row adds to the cumulative value
ValueFlow(r) ==
    CASE r.type \in {Deposit, Buy} -> 0 - r.amount
      [] r.type \in {Withdraw, Sell} -> r.amount
      [] r.type = Dividend -> r.amount
      [] OTHER -> 0

\* the rows by date ascending; rows of one timestamp carry the same date and
\* the same cumulative value, so their order does not show in the result
RECURSIVE OrderByDate(_)
OrderByDate(rows) ==
    IF rows = {} THEN <<>>
    ELSE LET first == CHOOSE r \in rows : \A q \in rows :
                          \/ r.transaction_at < q.transaction_at
                          \/ (r.transaction_at = q.transaction_at /\ r.id <= q.id)
         IN  <<first>> \o OrderByDate(rows \ {first})

\* the query of calculateDrawdown: one entry per row; SUM(...) OVER (ORDER BY
\* transaction_at) adds up the rows up to and including the row's timestamp
daily_values(db, portfolioID) ==
    LET rows == PortfolioRows(db, portfolioID)
        ord == OrderByDate(rows)
    IN  [i \in 1..Len(ord) |->
            LET upto == {q \in rows : q.transaction_at <= ord[i].transaction_at}
            IN  [date |-> ord[i].transaction_at,
                 cumulative_value |-> SumOver(upto, [q \in upto |-> ValueFlow(q)])]]

\* the loop of calculateDrawdown over the series; divisors collects every
\* maxValue the quotient (maxValue - value) / maxValue was formed with
RECURSIVE DrawdownLoop(_, _, _)
DrawdownLoop(series, i, st) ==
    IF i > Len(series) THEN st
    ELSE LET date == series[i].date
             value == series[i].cumulative_value
         IN  IF value > st.maxValue
             THEN DrawdownLoop(series, i + 1,
                      [st EXCEPT !.maxValue = value, !.currentPeak = date])
             ELSE LET currentDD == Quotient((st.maxValue - value) * 100, st.maxValue)
                      deeper == Greater(currentDD, st.maxDD)
                  IN  DrawdownLoop(series, i + 1,
                          [st EXCEPT
                              !.maxDD = IF deeper THEN currentDD ELSE @,
                              !.ddStart = IF deeper THEN st.currentPeak ELSE @,
                              !.ddEnd = IF deeper THEN date ELSE @,
                              !.divisors = @ \cup {st.maxValue}])

\* calculateDrawdown: report.MaxDrawdown and report.DrawdownPeriods
calculateDrawdown(db, portfolioID) ==
    LET st == DrawdownLoop(daily_values(db, portfolioID), 1,
                  [maxValue |-> 0, maxDD |-> Num(0, 1), ddStart |-> NoDate,
                   ddEnd |-> NoDate, currentPeak |-> NoDate, divisors |-> {}])
    IN  [max_drawdown |-> st.maxDD,
         drawdown_periods |->
             IF Greater(st.maxDD, Num(0, 1))
             THEN <<[start_date |-> st.ddStart, end_date |-> st.ddEnd,
                     percentage |-> st.maxDD]>>
             ELSE <<>>,
         divisors |-> st.divisors]

(***************************************************************************)
(* calculateIRR and calculateXIRR, one loop iteration per step.  The two   *)
(* functions have the same body.  The float64 arithmetic is not computed:  *)
(* of an iteration only the outcome of math.Abs(f) < tolerance is kept,    *)
(* and for a series that has flows either outcome is allowed at every      *)
(* iteration (f may also be NaN or infinite, which compare as not close).  *)
(* With no flows the inner loop adds nothing and f is 0.                   *)
(***************************************************************************)
maxIterations == 100

\* the longest cash-flow series drawn
MaxFlows == 2

ReturnFunctions == {"calculateIRR", "calculateXIRR"}

\* rate := guess, i := 0.  broke records that the comparison came out true.
StartIteration(fn, flows) ==
    /\ newton.pc \in {"idle", "returned"}
    /\ newton' = [pc |-> "loop", fn |-> fn, flows |-> flows, rate |-> "guess",
                  i |-> 0, updates |-> 0, broke |-> FALSE]
    /\ UNCHANGED <<portfolio_transactions, nextId, resp, inflight, round,
                   portfolios, client, reads>>

\* an iteration that goes on to the update whatever the comparison gives
IterateNoBreak ==
    /\ newton.pc = "loop"
    /\ newton.i < maxIterations
    /\ \E close \in (IF newton.flows = 0 THEN {TRUE} ELSE BOOLEAN) :
          newton' = [newton EXCEPT !.rate = "updated", !.updates = @ + 1,
                                   !.i = @ + 1, !.broke = @ \/ close]
    /\ UNCHANGED <<portfolio_transactions, nextId, resp, inflight, round,
                   portfolios, client, reads>>

\* one iteration: f and df are summed over the flows; break when
\* math.Abs(f) < tolerance, otherwise rate = rate - f/df and i++
Iterate ==
    /\ newton.pc = "loop"
    /\ newton.i < maxIterations
    /\ \E close \in (IF newton.flows = 0 THEN {TRUE} ELSE BOOLEAN) :
          newton' = IF close
                    THEN [newton EXCEPT !.pc = "returned", !.broke = TRUE]
                    ELSE [newton EXCEPT !.rate = "updated", !.updates = @ + 1,
                                        !.i = @ + 1]
    /\ UNCHANGED <<portfolio_transactions, nextId, resp, inflight, round,
                   portfolios, client, reads>>

\* i < maxIterations fails: return rate * 100
LoopEnds ==
    /\ newton.pc = "loop"
    /\ newton.i >= maxIterations
    /\ newton' = [newton EXCEPT !.pc = "returned"]
    /\ UNCHANGED <<portfolio_transactions, nextId, resp, inflight, round,
                   portfolios, client, reads>>

NextNewton ==
    \/ \E fn \in ReturnFunctions, flows \in 0..MaxFlows : StartIteration(fn, flows)
    \/ Iterate
    \/ LoopEnds

\* a call that has started keeps running: the loop does not wait on anything
SpecNewton == Init /\ [][NextNewton]_vars /\ WF_vars(Iterate \/ LoopEnds)

(***************************************************************************)
(* The ledger's total order and what replaying it gives.                   *)
(***************************************************************************)
Ledger == PortfolioRows(portfolio_transactions, 1)

\* the total order: effective timestamp, then insertion id
Before(r, q) ==
    \/ r.transaction_at < q.transaction_at
    \/ (r.transaction_at = q.transaction_at /\ r.id < q.id)

Consecutive(rows, r, q) ==
    /\ Before(r, q)
    /\ ~\E m \in rows : Before(r, m) /\ Before(m, q)

\* what a committed transaction does to the cash balance
CashEffect(r) ==
    CASE r.type = Deposit -> r.amount
      [] r.type = Withdraw -> 0 - r.amount
      [] r.type = Buy -> 0 - (r.amount + r.fee)
      [] r.type = Sell -> r.amount - r.fee
      [] r.type = Dividend -> r.amount

Trades(rows, ticker) == {r \in rows : r.ticker = ticker /\ r.type \in {Buy, Sell}}

SharesOf(rows, ticker, type) ==
    LET rs == {r \in rows : r.ticker = ticker /\ r.type = type}
    IN  SumOver(rs, [r \in rs |-> r.shares])

\* some row was inserted with an effective timestamp before that of an earlier row
Backdated(rows) ==
    \E r, q \in rows : r.id < q.id /\ q.transaction_at < r.transaction_at

(***************************************************************************)
(* C1.  Cash continuity: of any two consecutive transactions in the total  *)
(* order (effective timestamp, then id), the later one's                   *)
(* cash_balance_before equals the earlier one's cash_balance_after,        *)
(* whatever the order in which the effective timestamps were supplied.     *)
(***************************************************************************)
C1_CashContinuity ==
    \A r, q \in Ledger :
        Consecutive(Ledger, r, q) => q.cash_balance_before = r.cash_balance_after

(***************************************************************************)
(* C4.  Share reconciliation: for every ticker the signed sum of shares    *)
(* (BUY +, SELL -) over the committed transactions equals the current      *)
(* share count the balance lookup returns.                                 *)
(***************************************************************************)
C4_ShareReconciliation ==
    \A t \in KnownTickers :
        LET rs == Trades(Ledger, t)
        IN  SumOver(rs, [r \in rs |-> SignedShares(r)])
                = getLatestBalances(portfolio_transactions, 1, t)[2]

(***************************************************************************)
(* C5.  The current cash balance (0 for an empty ledger) equals the sum of *)
(* the cash effects of all committed transactions.                         *)
(***************************************************************************)
C5_CashReconciliation ==
    getPortfolioBalance(portfolio_transactions, 1)
        = SumOver(Ledger, [r \in Ledger |-> CashEffect(r)])

(***************************************************************************)
(* C6.  No over-selling: for every ticker the shares of the committed      *)
(* SELLs never exceed the shares of the committed BUYs (requests handled   *)
(* one at a time, effective timestamps in any order).                      *)
(***************************************************************************)
C6_NoOverSelling ==
    \A t \in KnownTickers : SharesOf(Ledger, t, Sell) <= SharesOf(Ledger, t, Buy)

(***************************************************************************)
(* C7.  A request that passes the validators but fails a business-rule     *)
(* check (a SELL of more shares than the ticker's current share count, a   *)
(* WITHDRAW of more than the current cash, a BUY whose amount + fee        *)
(* exceeds the current cash) is answered with the insufficient-shares /    *)
(* insufficient-funds error and leaves the table as it was.  Holdings and  *)
(* lots are read from the table, so they are unchanged with it.  Stated of *)
(* every step: a step of the handler on such a request is a step that      *)
(* gives that answer and changes neither the table nor the id sequence.    *)
(***************************************************************************)
\* held: the ticker's current share count; cash: the current cash balance
ShortOfShares(held, req) ==
    /\ req.type = Sell
    /\ validateSellTransaction(req)
    /\ req.shares > held

ShortOfFunds(cash, req) ==
    \/ req.type = Withdraw /\ validateCashTransaction(req) /\ req.amount > cash
    \/ req.type = Buy /\ validateBuyTransaction(req) /\ req.amount + req.fee > cash

C7_RejectedRequestChangesNothing ==
    [][LET cash == getPortfolioBalance(portfolio_transactions, 1)
           held == getLatestBalances(portfolio_transactions, 1, "BBOB")[2]
       IN  \A req \in CashRequests \cup StockRequests :
             /\ ShortOfShares(held, req)
                   => \/ /\ resp' = "InsufficientShares"
                         /\ portfolio_transactions' = portfolio_transactions
                         /\ nextId' = nextId
                      \/ ~CreateTransaction(req)
             /\ ShortOfFunds(cash, req)
                   => \/ /\ resp' = "InsufficientFunds"
                         /\ portfolio_transactions' = portfolio_transactions
                         /\ nextId' = nextId
                      \/ ~CreateTransaction(req)]_vars

\* a SELL was refused for want of shares while the ticker had shares and lots,
\* and the portfolio had cash
C7_Witness ==
    /\ resp = "InsufficientShares"
    /\ getLatestBalances(portfolio_transactions, 1, "BBOB")[2] > 0
    /\ BuyLots(portfolio_transactions, 1, "BBOB") # {}
    /\ getPortfolioBalance(portfolio_transactions, 1) > 0

(***************************************************************************)
(* C8.  FIFO coverage: for every ticker the shares its purchase lots still *)
(* offer to FIFO consumption add up to the ticker's current share count.   *)
(* The lots the FIFO computation consumes from are the rows BuyLots        *)
(* selects, each offering the column shares.                               *)
(***************************************************************************)
C8_FifoCoverage ==
    \A t \in KnownTickers :
        LET lots == BuyLots(portfolio_transactions, 1, t)
        IN  SumOver(lots, [l \in lots |-> l.shares])
                = getLatestBalances(portfolio_transactions, 1, t)[2]

(***************************************************************************)
(* C10.  Every committed BUY row has average_cost_after =                  *)
(* (shares_count_before * average_cost_before + shares * price) /          *)
(* shares_count_after, also when amount differs from shares * price within *)
(* the tolerance.                                                          *)
(***************************************************************************)
C10_BuyAverageCost ==
    \A r \in Ledger :
        r.type = Buy =>
            r.average_cost_after
                = RoundDiv(r.shares_count_before * r.average_cost_before
                               + r.shares * r.price,
                           r.shares_count_after)

(***************************************************************************)
(* C9.  Every committed SELL of N shares consumes, oldest lot first,       *)
(* min(remaining_to_sell, lot remaining shares) from each lot, a lot's     *)
(* remaining shares being its purchased shares minus what earlier SELLs    *)
(* consumed from it; the consumed amounts sum to N and the FIFO realized   *)
(* gain recorded for the SELL is the sum over lots of                      *)
(* consumed shares * (sell price - lot purchase price).                    *)
(***************************************************************************)
\* the rows of a set in the total order
RECURSIVE InOrder(_)
InOrder(rows) ==
    IF rows = {} THEN <<>>
    ELSE LET first == CHOOSE r \in rows : \A q \in rows \ {r} : Before(r, q)
         IN  <<first>> \o InOrder(rows \ {first})

\* One sale against lots whose remaining shares are rem (lot id -> shares):
\* what is left to sell, the lots' remaining shares afterwards and the gain.
RECURSIVE ConsumeOldestFirst(_, _, _, _, _)
ConsumeOldestFirst(lots, i, toSell, rem, sellPrice) ==
    IF i > Len(lots) \/ toSell = 0
    THEN [left |-> toSell, rem |-> rem, gain |-> 0]
    ELSE LET consumed == Min(toSell, rem[lots[i].id])
             rest == ConsumeOldestFirst(lots, i + 1, toSell - consumed,
                         [rem EXCEPT ![lots[i].id] = @ - consumed], sellPrice)
         IN  [left |-> rest.left, rem |-> rest.rem,
              gain |-> consumed * (sellPrice - lots[i].price) + rest.gain]

LotsBefore(rows, ticker, sale) ==
    InOrder({l \in rows : l.ticker = ticker /\ l.type = Buy /\ Before(l, sale)})

\* the k-th sale of the ticker, against what the sales before it left
RECURSIVE FifoSale(_, _, _, _)
FifoSale(rows, ticker, sales, k) ==
    LET bought == {l \in rows : l.ticker = ticker /\ l.type = Buy}
        rem == IF k = 1 THEN [id \in {l.id : l \in bought} |->
                                 (CHOOSE l \in bought : l.id = id).shares]
               ELSE FifoSale(rows, ticker, sales, k - 1).rem
    IN  ConsumeOldestFirst(LotsBefore(rows, ticker, sales[k]), 1, sales[k].shares,
                           rem, sales[k].price)

C9_FifoConsumption ==
    \A t \in KnownTickers :
        LET sales == InOrder({r \in Ledger : r.ticker = t /\ r.type = Sell})
        IN  \A k \in 1..Len(sales) :
                /\ FifoSale(Ledger, t, sales, k).left = 0
                /\ sales[k].notes[1] = FifoSale(Ledger, t, sales, k).gain

(***************************************************************************)
(* C2.  Two SELL requests on one ticker that overlap, each for a number of *)
(* shares that is held but together for more than is held, never both      *)
(* commit.                                                                 *)
(***************************************************************************)
RoundOver ==
    /\ \A p \in Procs : inflight[p] = Idle
    /\ \A p \in Procs : round.reqs[p] # NoReq

C2_NoDoubleSell ==
    LET a == round.reqs[1]
        b == round.reqs[2]
    IN  (/\ RoundOver
         /\ a.type = Sell /\ b.type = Sell /\ a.ticker = b.ticker
         /\ LET held == getLatestBalances(round.base, 1, a.ticker)[2]
            IN  a.shares <= held /\ b.shares <= held /\ a.shares + b.shares > held)
        => ~(round.resps[1] = "Created" /\ round.resps[2] = "Created")

(***************************************************************************)
(* C3.  Read, compute, write is atomic per portfolio: when two requests    *)
(* overlapped, the table they leave is the table one of the two serial     *)
(* orders leaves.                                                          *)
(***************************************************************************)
\* the tables the handler, run alone on req, may leave (one per lot order)
Alone(db, id, req) ==
    {[db |-> Commit(db, ReadSnapshot(db, req, lots), req, id),
      id |-> IF Response(ReadSnapshot(db, req, lots), req) = "Created"
             THEN id + 1 ELSE id] :
        lots \in LotOrders(db, req.portfolio_id, req.ticker)}

Serial(db, id, first, second) ==
    UNION {{y.db : y \in Alone(x.db, x.id, second)} : x \in Alone(db, id, first)}

C3_Serializable ==
    RoundOver =>
        portfolio_transactions \in
            Serial(round.base, round.baseId, round.reqs[1], round.reqs[2])
            \cup Serial(round.base, round.baseId, round.reqs[2], round.reqs[1])

AcrossDividend(rows, b, q) ==
    /\ b.type \in {Buy, Sell} /\ q.type \in {Buy, Sell}
    /\ b.ticker = q.ticker
    /\ Before(b, q)
    /\ \E d \in rows :
          d.ticker = q.ticker /\ d.type = Dividend /\ Before(b, d) /\ Before(d, q)
    /\ \A m \in rows :
          (m.ticker = q.ticker /\ Before(b, m) /\ Before(m, q)) => m.type = Dividend

C12_DividendKeepsAverageCost ==
    ~Backdated(Ledger) =>
        \A b, q \in Ledger :
            AcrossDividend(Ledger, b, q) => q.average_cost_before = b.average_cost_after

(***************************************************************************)
(* C13.  A DIVIDEND request is accepted only if the signed sum of the      *)
(* BUY/SELL shares of its ticker over the transactions with effective      *)
(* timestamp at or before the dividend's is strictly positive; when the    *)
(* sum is not positive the request is answered with a validation error and *)
(* nothing is written, even if shares of the ticker were bought at a later *)
(* effective timestamp or are held now.  Stated of every step of the       *)
(* handler on a DIVIDEND request.                                          *)
(***************************************************************************)
HeldAt(rows, ticker, at) ==
    LET rs == {r \in Trades(rows, ticker) : r.transaction_at <= at}
    IN  SumOver(rs, [r \in rs |-> SignedShares(r)])

C13_DividendNeedsSharesAtDate ==
    [][\A req \in DividendRequests :
          HeldAt(Ledger, req.ticker, req.transaction_at) <= 0
              => \/ /\ resp' = "ValidationError"
                    /\ portfolio_transactions' = portfolio_transactions
                    /\ nextId' = nextId
                 \/ ~CreateTransaction(req)]_vars

\* a request was refused by the validators while the ticker, held now and
\* bought at the later timestamp, was not held at the earlier one
C13_Witness ==
    /\ resp = "ValidationError"
    /\ HeldAt(Ledger, "BBOB", 1) = 0
    /\ getLatestBalances(portfolio_transactions, 1, "BBOB")[2] > 0
    /\ \E r \in Ledger : r.type = Buy /\ r.transaction_at = MaxTime

(***************************************************************************)
(* C14.  Every committed transaction satisfies its type's field rules:     *)
(* amount > 0 and fee >= 0 for all types; BUY and SELL have a ticker of    *)
(* the known tickers, shares > 0, price > 0 and                            *)
(* |amount - shares * price| <= 0.01; DEPOSIT and WITHDRAW carry no        *)
(* ticker, shares or price; DIVIDEND has a known ticker and zero shares,   *)
(* price and fee.  A request that violates any of them is rejected with    *)
(* nothing written.  Stated of every step: the rows after it satisfy the   *)
(* rules, and a step of the handler on a violating request changes neither *)
(* the table nor the id sequence.                                          *)
(***************************************************************************)
\* the rules on the fields type, ticker, shares, price, amount and fee; none
\* stands for the absence of shares or price (0 in a request, NULL in a row)
FieldRules(x, none) ==
    /\ x.amount > 0
    /\ x.fee >= 0
    /\ CASE x.type \in {Buy, Sell} ->
               /\ x.ticker \in KnownTickers
               /\ x.shares > 0
               /\ x.price > 0
               /\ Abs(x.amount - x.shares * x.price) <= Tolerance
         [] x.type \in {Deposit, Withdraw} ->
               x.ticker = NoTicker /\ x.shares = none /\ x.price = none
         [] x.type = Dividend ->
               x.ticker \in KnownTickers /\ x.shares = 0 /\ x.price = 0 /\ x.fee = 0
         [] OTHER -> FALSE

ShareEffect(r) ==
    CASE r.type = Buy -> r.shares
      [] r.type = Sell -> 0 - r.shares
      [] r.type = Dividend -> 0

C15_SnapshotDeltas ==
    \A r \in Ledger :
        /\ r.cash_balance_after - r.cash_balance_before = CashEffect(r)
        /\ r.type \in {Buy, Sell, Dividend}
              => r.shares_count_after - r.shares_count_before = ShareEffect(r)

(***************************************************************************)
(* C16.  The ledger is append-only: every CreateTransaction request ends   *)
(* either committed, having appended exactly one row, or rejected, having  *)
(* appended none, every previously committed row of every portfolio being  *)
(* left as it was; and no operation other than the portfolio reset         *)
(* modifies or deletes committed rows.  Stated of every step: it appends   *)
(* one row, or leaves the table as it was, or is a reset that removes the  *)
(* rows of one portfolio.                                                  *)
(***************************************************************************)
\* the step leaves the table as it was or adds one row, with the next id
Appended ==
    \/ portfolio_transactions' = portfolio_transactions
    \/ /\ resp' = "Created"
       /\ \E r \in portfolio_transactions' :
             /\ r.id = nextId
             /\ r \notin portfolio_transactions
             /\ portfolio_transactions' = portfolio_transactions \cup {r}

\* the step answers with answer and removes the rows of portfolio p, no other
RemovedBy(p, answer) ==
    /\ resp' = answer
    /\ portfolio_transactions' =
           {r \in portfolio_transactions : r.portfolio_id # p}

C16_AppendOnly ==
    [][Appended \/ \E p \in PortfolioIds : RemovedBy(p, "PortfolioReset")]_vars

\* C16 as amended: the rows of a portfolio are also removed by the deletion of
\* the portfolio itself.
C16_AppendOnlyButDelete ==
    [][\/ Appended
       \/ \E p \in PortfolioIds : RemovedBy(p, "PortfolioReset")
       \/ \E p \in PortfolioIds :
             RemovedBy(p, "PortfolioDeleted") /\ portfolios' = portfolios \ {p}]_vars

\* a portfolio was deleted, rows that had been committed are gone, and the
\* other portfolio still has its rows
C16_Witness ==
    /\ resp = "PortfolioDeleted"
    /\ portfolios # PortfolioIds
    /\ \E p \in portfolios : PortfolioRows(portfolio_transactions, p) # {}
    /\ Cardinality(portfolio_transactions) < nextId - 1

(***************************************************************************)
(* C17.  ResetPortfolio(p) deletes every transaction of portfolio p and    *)
(* nothing else: afterwards p's ledger is empty, the next                  *)
(* CreateTransaction on p reads cash_balance_before = 0 and                *)
(* shares_count_before = 0, and the transactions of every other portfolio  *)
(* are unchanged.                                                          *)
(***************************************************************************)
C17_ResetDeletesOnlyItsPortfolio ==
    [][\A p \in PortfolioIds :
          ResetPortfolio(p) =>
              /\ PortfolioRows(portfolio_transactions', p) = {}
              /\ \A t \in KnownTickers \cup {NoTicker} :
                    getLatestBalances(portfolio_transactions', p, t) = <<0, 0>>
              /\ \A q \in PortfolioIds \ {p} :
                    PortfolioRows(portfolio_transactions', q)
                        = PortfolioRows(portfolio_transactions, q)]_vars

\* a portfolio that had rows was reset while the other portfolio has rows
C17_Witness ==
    /\ resp = "PortfolioReset"
    /\ \E p \in PortfolioIds : PortfolioRows(portfolio_transactions, p) = {}
    /\ portfolio_transactions # {}
    /\ portfolios = PortfolioIds
    /\ Cardinality(portfolio_transactions) < nextId - 1

(***************************************************************************)
(* C18.  A transaction submitted once is applied to the ledger at most     *)
(* once: a write request that times out or fails in transport is not sent  *)
(* again automatically, so the committed rows never outnumber the          *)
(* submissions.                                                            *)
(***************************************************************************)
C18_AtMostOnce == Cardinality(portfolio_transactions) <= client.submitted

(***************************************************************************)
(* C19.  GetPortfolioHoldings lists a ticker if and only if the            *)
(* shares_count_after of the ticker's most recent BUY/SELL row (effective  *)
(* timestamp descending, then id descending) is positive, and reports      *)
(* exactly that share count; after a SELL that brings the ticker's         *)
(* position to zero the ticker is no longer listed.                        *)
(***************************************************************************)
C19_HoldingsAreLatestPositions ==
    LET holdings == GetPortfolioHoldings(portfolio_transactions, 1)
    IN  \A t \in KnownTickers :
            LET trades == Trades(Ledger, t)
                count == IF trades = {} THEN 0
                         ELSE LatestRow(trades).shares_count_after
            IN  /\ (\E h \in holdings : h.ticker = t) <=> count > 0
                /\ \A h \in holdings : h.ticker = t => h.shares = count

(***************************************************************************)
(* C20.  GetPortfolioDailyValues returns exactly one entry per calendar    *)
(* day of the requested range, in ascending order; each day's entry        *)
(* carries the cash_balance_after of the last transaction at or before     *)
(* that day and, per ticker, the shares_count_after of the ticker's last   *)
(* BUY/SELL at or before that day, tickers whose last count is zero being  *)
(* omitted; a day with no transactions repeats the previous day's cash and *)
(* positions.  Stated of ranges that do not reach past today.              *)
(***************************************************************************)
Days == 1..(MaxTime + 1)

\* ticker -> the shares_count_after of its last BUY/SELL at or before the day,
\* for the tickers where that count is positive
PositionsOn(rows, day) ==
    LET last(t) == LatestRow({r \in Trades(rows, t) : r.transaction_at <= day})
        held == {t \in KnownTickers :
                    /\ \E r \in Trades(rows, t) : r.transaction_at <= day
                    /\ last(t).shares_count_after > 0}
    IN  {<<t, last(t).shares_count_after>> : t \in held}

C20_DailyValues ==
    \A startDate, endDate \in Days :
        startDate <= endDate =>
            LET dv == GetPortfolioDailyValues(portfolio_transactions, 1,
                                              startDate, endDate, MaxTime + 1)
                upto(d) == {r \in Ledger : r.transaction_at <= d}
            IN  /\ Len(dv) = endDate - startDate + 1
                /\ \A i \in 1..Len(dv) :
                      LET d == startDate + i - 1
                      IN  /\ dv[i].date = d
                          /\ dv[i].cash_balance =
                                 IF upto(d) = {} THEN 0
                                 ELSE LatestRow(upto(d)).cash_balance_after
                          /\ {<<h.ticker, h.shares>> : h \in dv[i].positions}
                                 = PositionsOn(Ledger, d)
                          /\ (i > 1 /\ ~\E r \in Ledger : r.transaction_at = d)
                                 => /\ dv[i].cash_balance = dv[i - 1].cash_balance
                                    /\ dv[i].positions = dv[i - 1].positions

(***************************************************************************)
(* C21.  The performance report's total_return equals realized gains (the  *)
(* sum over the SELL rows of shares x (price - average_cost_before)) plus  *)
(* unrealized gains (the sum over the current holdings of shares x         *)
(* (current price - cost basis)) plus dividend income (the sum of the      *)
(* DIVIDEND amounts), and return_percent is total_return / net             *)
(* contributions x 100, or 0 when net contributions is 0.                  *)
(***************************************************************************)
C21_TotalReturn ==
    LET report == getPerformanceMetrics(portfolio_transactions, 1)
        amounts(type) ==
            LET rs == {r \in Ledger : r.type = type}
            IN  SumOver(rs, [r \in rs |-> r.amount])
        sells == {r \in Ledger : r.type = Sell}
        realized ==
            SumOver(sells, [r \in sells |->
                r.shares * (r.price - r.average_cost_before)])
        holdings == GetPortfolioHoldings(portfolio_transactions, 1)
        unrealized ==
            SumOver(holdings, [h \in holdings |->
                h.shares * (daily_stock_prices[h.ticker] - h.average_cost)])
        net == amounts(Deposit) - amounts(Withdraw)
    IN  /\ report.total_return = realized + unrealized + amounts(Dividend)
        /\ IF net = 0
           THEN report.return_percent[1] = 0
           ELSE report.return_percent[1] * net
                    = report.total_return * 100 * report.return_percent[2]

(***************************************************************************)
(* C22.  calculateDrawdown reports as max drawdown the largest value of    *)
(* (peak - value) / peak over the cumulative-value series, peak being the  *)
(* running maximum of the values seen so far, with the peak date as start  *)
(* and the trough date as end; the quotient is only ever formed with a     *)
(* strictly positive peak, for every series, including one whose values    *)
(* never rise above zero.                                                  *)
(***************************************************************************)
C22_Drawdown ==
    LET dd == calculateDrawdown(portfolio_transactions, 1)
        series == daily_values(portfolio_transactions, 1)
        value(i) == series[i].cumulative_value
        peak(i) == CHOOSE m \in {value(j) : j \in 1..i} :
                       \A j \in 1..i : value(j) <= m
        peakAt(i) == CHOOSE j \in 1..i :
                         /\ value(j) = peak(i)
                         /\ \A k \in 1..(j - 1) : value(k) < peak(i)
        formed == {i \in 1..Len(series) : peak(i) > 0}
        ratio(i) == Num((peak(i) - value(i)) * 100, peak(i))
        largest == IF formed = {} THEN Num(0, 1)
                   ELSE ratio(CHOOSE i \in formed :
                                 \A j \in formed : ~Greater(ratio(j), ratio(i)))
        trough == CHOOSE i \in formed :
                      /\ \A j \in formed : ~Greater(ratio(j), ratio(i))
                      /\ \A j \in formed : j < i => Greater(ratio(i), ratio(j))
    IN  /\ \A d \in dd.divisors : d > 0
        /\ dd.max_drawdown.kind = "num"
        /\ ~Greater(dd.max_drawdown, largest)
        /\ ~Greater(largest, dd.max_drawdown)
        /\ Greater(largest, Num(0, 1)) =>
              /\ Len(dd.drawdown_periods) = 1
              /\ dd.drawdown_periods[1].start_date = series[peakAt(trough)].date
              /\ dd.drawdown_periods[1].end_date = series[trough].date

(***************************************************************************)
(* C23.  The IRR and XIRR Newton iterations terminate for every cash-flow  *)
(* series: each starts from rate 0.10, performs at most 100 updates, and   *)
(* stops at the first iteration where |f(rate)| < 1e-6.                    *)
(***************************************************************************)
C23_NewtonTerminates ==
    /\ [](newton.pc # "idle" =>
            /\ newton.updates <= maxIterations
            /\ newton.updates = 0 <=> newton.rate = "guess"
            /\ newton.broke => newton.pc = "returned")
    /\ (newton.pc = "loop") ~> (newton.pc = "returned")

\* a series with flows whose iteration was close enough after some updates
C23_Witness ==
    /\ newton.pc = "returned"
    /\ newton.flows > 0
    /\ newton.broke
    /\ newton.updates > 0

(***************************************************************************)
(* The read handlers as requests, between CreateTransaction requests.  A   *)
(* read leaves its answer in reads and "Read" in resp.                     *)
(***************************************************************************)
MaxReadTx == 2

ReadCall(op, startDate, endDate) ==
    [op |-> op, portfolio_id |-> 1, start_date |-> startDate, end_date |-> endDate]

\* GET holdings, transactions, balance, and daily-values over each range of
\* days; the daily-values handler takes today from the clock, here the day
\* after the last effective timestamp
ReadCalls ==
    {ReadCall(op, 0, 0) :
        op \in {"GetPortfolioHoldings", "ListTransactions", "GetPortfolioBalance"}}
    \cup {ReadCall("GetPortfolioDailyValues", s, e) : s \in Days, e \in Days}

Answer(db, call) ==
    CASE call.op = "GetPortfolioHoldings" ->
             GetPortfolioHoldings(db, call.portfolio_id)
      [] call.op = "ListTransactions" ->
             ListTransactions(db, call.portfolio_id)
      [] call.op = "GetPortfolioBalance" ->
             GetPortfolioBalance(db, call.portfolio_id)
      [] call.op = "GetPortfolioDailyValues" ->
             GetPortfolioDailyValues(db, call.portfolio_id, call.start_date,
                                     call.end_date, MaxTime + 1)

\* a read that removes the latest row it has reported
ReadAndConsume(call) ==
    /\ reads' = [call |-> call, result |-> Answer(portfolio_transactions, call)]
    /\ resp' = "Read"
    /\ portfolio_transactions' =
           IF PortfolioRows(portfolio_transactions, call.portfolio_id) = {}
           THEN portfolio_transactions
           ELSE portfolio_transactions
                    \ {LatestRow(PortfolioRows(portfolio_transactions,
                                               call.portfolio_id))}
    /\ UNCHANGED <<nextId, inflight, round, portfolios, client, newton>>

\* the handlers run SELECT statements only and write the result as JSON
Read(call) ==
    /\ reads' = [call |-> call, result |-> Answer(portfolio_transactions, call)]
    /\ resp' = "Read"
    /\ UNCHANGED <<portfolio_transactions, nextId, inflight, round, portfolios,
                   client, newton>>

CreateBetweenReads(req) == Handle(req, MaxReadTx) /\ UNCHANGED client

NextRead ==
    \/ \E req \in Requests : CreateBetweenReads(req)
    \/ \E call \in ReadCalls : Read(call)

SpecRead == Init /\ [][NextRead]_vars

MaxTieTx == 4

TieRequests == UNION {FifoRequests(at) : at \in Times}

CreateAtAnyTime(req) == Handle(req, MaxTieTx) /\ UNCHANGED client

NextTie == \E req \in TieRequests : CreateAtAnyTime(req)

SpecTie == Init /\ [][NextTie]_vars

(***************************************************************************)
(* C25.  The FIFO walk is deterministic: lots are visited by purchase date *)
(* ascending and, among lots with the same purchase timestamp, by id       *)
(* ascending, so that for a fixed ledger a SELL always yields the same     *)
(* FIFO cost basis and realized gain, even when two BUYs of the ticker at  *)
(* different prices share one effective timestamp.                         *)
(***************************************************************************)
C25_FifoDeterministic ==
    \A req \in {r \in TieRequests : r.type = Sell} :
        LET orders == LotOrders(portfolio_transactions, 1, req.ticker)
            seen(lots) == [i \in 1..Len(lots) |->
                              <<lots[i].shares, lots[i].price, lots[i].transaction_at>>]
            byDateThenId == InOrder(BuyLots(portfolio_transactions, 1, req.ticker))
        IN  /\ \A lots \in orders : seen(lots) = seen(byDateThenId)
            /\ \A lots1, lots2 \in orders :
                  calculateFIFOSale(lots1, req.shares, req.price)
                      = calculateFIFOSale(lots2, req.shares, req.price)

(***************************************************************************)
(* C26.  ListTransactions returns every committed transaction of the       *)
(* portfolio, of every type, including the DEPOSIT and WITHDRAW rows whose *)
(* ticker, shares and price are NULL, exactly once, ordered by effective   *)
(* timestamp descending then id descending, and its total equals the       *)
(* number of transactions returned.                                        *)
(***************************************************************************)
C26_ListsEveryTransaction ==
    LET list == ListTransactions(portfolio_transactions, 1)
        returned == list.transactions
    IN  /\ {returned[i].Transaction.id : i \in 1..Len(returned)}
               = {r.id : r \in Ledger}
        /\ Len(returned) = Cardinality(Ledger)
        /\ \A i, j \in 1..Len(returned) :
              i < j => Before(returned[j].Transaction, returned[i].Transaction)
        /\ list.total = Len(returned)

(***************************************************************************)
(* C27.  The summary returned with the transaction list has                *)
(* total_deposits, total_withdrawals, total_dividends and total_fees equal *)
(* to the corresponding sums over all of the portfolio's committed         *)
(* transactions, for every ledger, including a ledger in which no ticker   *)
(* currently has a positive share count.                                   *)
(***************************************************************************)
C27_SummaryTotals ==
    LET summary == ListTransactions(portfolio_transactions, 1).summary
        amounts(type) ==
            LET rs == {r \in Ledger : r.type = type}
            IN  SumOver(rs, [r \in rs |-> r.amount])
    IN  /\ summary.total_deposits = amounts(Deposit)
        /\ summary.total_withdrawals = amounts(Withdraw)
        /\ summary.total_dividends = amounts(Dividend)
        /\ summary.total_fees = SumOver(Ledger, [r \in Ledger |-> r.fee])

(***************************************************************************)
(* Requests whose fee may exceed the traded amount.                        *)
(***************************************************************************)
MaxFeeTx == 4

\* <<shares, price, amount - shares * price, fee>>
FeeQuotes == {<<1, 1, 0, 0>>, <<1, 1, 0, 2>>}

FeeRequests ==
    {Request(Deposit, NoTicker, 0, 0, 1, 0, at) : at \in Times}
    \cup {Request(t, "BBOB", q[1], q[2], q[1] * q[2] + q[3], q[4], at) :
             t \in {Buy, Sell}, q \in FeeQuotes, at \in Times}

CreateWithFees(req) == Handle(req, MaxFeeTx) /\ UNCHANGED client

NextFee == \E req \in FeeRequests : CreateWithFees(req)

SpecFee == Init /\ [][NextFee]_vars

(***************************************************************************)
(* C28.  Every committed transaction has cash_balance_after >= 0: no       *)
(* sequence of accepted requests handled one after the other, including a  *)
(* SELL whose fee exceeds its proceeds plus the available cash, drives the *)
(* recorded cash balance negative.                                         *)
(***************************************************************************)
C28_CashNeverNegative ==
    \A r \in Ledger : r.cash_balance_after >= 0

(***************************************************************************)
(* One handler and the reset of its portfolio.  ResetPortfolio runs its    *)
(* DELETE in a transaction of its own and takes no lock the handler waits  *)
(* for, so it may commit between the handler's reads and its INSERT.  Only *)
(* the one handler commits rows here.                                      *)
(***************************************************************************)
NextReset ==
    \/ \E req \in ConcRequests : Begin(1, req)
    \/ Finish(1)
    \/ ResetPortfolio(1)

SpecReset == Init /\ [][NextReset]_vars

(***************************************************************************)
(* C29.  When ResetPortfolio(p) commits while a CreateTransaction on p is  *)
(* in flight (it has already read its before-balances), the in-flight      *)
(* request does not resurrect the state from before the reset: any row it  *)
(* then commits has cash_balance_before = 0 and shares_count_before = 0,   *)
(* or it is rejected.  The handler being the only one that commits, the    *)
(* portfolio has no row when the handler finishes exactly when a reset     *)
(* came after its reads or there was nothing to read.                      *)
(***************************************************************************)
C29_ResetIsolatesInFlight ==
    [][\A p \in Procs :
          (/\ inflight[p] # Idle
           /\ inflight'[p] = Idle
           /\ PortfolioRows(portfolio_transactions, inflight[p].req.portfolio_id) = {})
          => \A r \in portfolio_transactions' \ portfolio_transactions :
                 /\ r.cash_balance_before = 0
                 /\ r.shares_count_before \in {0, NullNum}]_vars

(***************************************************************************)
(* C30.  The two current-value read paths agree: for every ledger, the     *)
(* total_value returned by GetPortfolioBalance equals the value returned   *)
(* by GetPortfolioValue, namely the latest cash balance plus the sum over  *)
(* tickers of (current share count x price of the ticker's latest          *)
(* BUY/SELL), each ticker counted once.                                    *)
(***************************************************************************)
C30_ValuePathsAgree ==
    LET cash == IF Ledger = {} THEN 0 ELSE LatestRow(Ledger).cash_balance_after
        traded == {t \in KnownTickers : Trades(Ledger, t) # {}}
        value == cash + SumOver(traded, [t \in traded |->
                     LatestRow(Trades(Ledger, t)).shares_count_after
                         * LatestRow(Trades(Ledger, t)).price])
    IN  /\ GetPortfolioValue(portfolio_transactions, 1) = value
        /\ GetPortfolioBalance(portfolio_transactions, 1).total_value = value

====
